---- MODULE Spec2Model ----
(***************************************************************************)
(* The recursive build / refine loop of autocoder's Coder and the test     *)
(* suite values it manipulates.                                            *)
(*                                                                         *)
(* One build invocation is a frame on `stack`; a recursive sub-build       *)
(* pushes a frame, its return pops it and the parent consumes the value.   *)
(* Every collaborator call of build is one action; what a collaborator     *)
(* answers (files, suites, test outcomes) is drawn from small sets.        *)
(***************************************************************************)
EXTENDS Integers, Sequences, FiniteSets, TLC

VARIABLES stack, disk, allowed_subcoders, lab

vars == <<stack, disk, allowed_subcoders, lab>>

----------------------------------------------------------------------------
(* Bounds of the exploration *)

\* Deepest nesting of build calls explored (1 = the top-level build only).
MaxDepth == 2
\* Longest dev plan generate_dev_plan answers.
MaxPlan == 2
\* Most run() calls one build invocation is followed through.
MaxRuns == 3

\* Paths the code-writing collaborators may report, and the test paths.
ProjPaths == {"a.py"}
TestPaths == {"t1.py", "t2.py"}
\* Captured output of the test-execution subprocess.
Outputs == {"d1", "d2"}
\* Coder classes a coder may name in allowed_subcoders.
CoderClasses == {"PythonOpenAICoder"}

----------------------------------------------------------------------------
(* Test suite values *)

\* NoTests(): the terminal empty suite.
NoTests == [kind |-> "NoTests", main |-> {}, others |-> {}]

\* PythonTests(test_files): main_test_files = test_files, other_tests = set().
PythonTests(test_files) == [kind |-> "PythonTests", main |-> test_files, others |-> {}]

\* A plain path string standing where the code expects a Tests object
\* (what tuple-unpacking a returned set of paths binds, see Unpack).
StrValue(paths) == [kind |-> "str", main |-> paths, others |-> {}]

\* A test suite of another concrete kind than PythonTests, with the main
\* files and children it holds.
OtherTests(test_files, children) ==
    [kind |-> "OtherTests", main |-> test_files, others |-> children]

\* A _combine that nests every operand, of its own kind too.
CombineNestsSameKind(self, tests) ==
    [self EXCEPT !.others = self.others \cup {tests}]

\* A _combine that drops an operand of another kind.
CombineDropsOtherKinds(self, tests) ==
    IF tests.kind = "PythonTests"
    THEN [self EXCEPT !.main = self.main \cup tests.main]
    ELSE self

\* PythonTests._combine: same kind coalesces main files, anything else nests.
_combine(self, tests) ==
    IF tests.kind = "PythonTests"
    THEN [self EXCEPT !.main = self.main \cup tests.main]
    ELSE [self EXCEPT !.others = self.others \cup {tests}]

\* _combine of a suite of another kind: the same rule, on its own kind.
OtherCombine(self, tests) ==
    IF tests.kind = self.kind
    THEN [self EXCEPT !.main = self.main \cup tests.main]
    ELSE [self EXCEPT !.others = self.others \cup {tests}]

\* An __iadd__ that hands a NoTests right operand to _combine.
MergeNestsNoTests(a, b) ==
    IF a.kind = "NoTests" THEN b
    ELSE IF a.kind = "str" THEN StrValue(a.main \cup b.main)
    ELSE IF a.kind = "PythonTests" THEN _combine(a, b)
    ELSE OtherCombine(a, b)

\* Tests.__iadd__ (`a += b`): NoTests is the identity in both directions,
\* otherwise the left operand's _combine decides.  A str on the left is
\* Python's own str += str (concatenation).
Merge(a, b) ==
    IF a.kind = "NoTests" THEN b
    ELSE IF b.kind = "NoTests" THEN a
    ELSE IF a.kind = "str" THEN StrValue(a.main \cup b.main)
    ELSE IF a.kind = "PythonTests" THEN _combine(a, b)
    ELSE OtherCombine(a, b)

\* test_files() raises AttributeError when it reaches an object that is no
\* Tests (a str has no test_files method).
RECURSIVE TestFilesRaises(_)
TestFilesRaises(s) ==
    \/ s.kind = "str"
    \/ \E o \in s.others : TestFilesRaises(o)

\* A _main_test_files without the isfile filter.
MainTestFilesUnfiltered(s, d) == s.main

\* PythonTests._main_test_files: the main files that exist on disk.
_main_test_files(s, d) == s.main \cap d

\* A test_files that leaves the children out.
TestFilesOfMainOnly(s, d) == _main_test_files(s, d)

\* PythonTests.test_files: existing main files and the children's files.
RECURSIVE test_files(_, _)
test_files(s, d) ==
    _main_test_files(s, d) \cup UNION {test_files(o, d) : o \in s.others}

\* A run that can pass although the suite has no existing test file.
RunPassesWithoutFiles(s, d) ==
    {[ok |-> TRUE, out |-> "passed"] : x \in {y \in {s} : y.main \subseteq d}}
        \cup {[ok |-> FALSE, out |-> o] : o \in Outputs}

\* Tests.run(), over every environment: a suite with no existing test file
\* fails with empty diagnostics; pytest fails when it is handed a main file
\* that does not exist; otherwise the subprocess decides success and output.
RunOutcomes(s, d) ==
    IF test_files(s, d) = {}
    THEN {[ok |-> FALSE, out |-> ""]}
    ELSE {[ok |-> TRUE, out |-> "passed"] : x \in {y \in {s} : y.main \subseteq d}}
         \cup {[ok |-> FALSE, out |-> o] : o \in Outputs}

----------------------------------------------------------------------------
(* Running a suite in a given environment e: e.disk the files that exist,  *)
(* e.passing the test files whose tests pass, e.cwd whether a pytest run   *)
(* without file arguments (collection from the working directory) passes.  *)

\* Exit status of `python -m pytest *files`: 4 when a named file does not
\* exist, 0 when every test passes, 1 otherwise.
returncode(files, e) ==
    IF ~(files \subseteq e.disk) THEN 4
    ELSE IF files = {} THEN (IF e.cwd THEN 0 ELSE 1)
    ELSE IF files \subseteq e.passing THEN 0 ELSE 1

\* Captured standard output of that subprocess.
stdout(files) == "pytest " \o ToString(files)

TEST_RESULT_SEPARATOR == "\n\n"

\* str.join on a non-empty list.
RECURSIVE Join(_, _)
Join(sep, xs) ==
    IF Len(xs) = 1 THEN xs[1] ELSE xs[1] \o sep \o Join(sep, Tail(xs))

\* The orders in which iterating the set other_tests can yield its members.
IterationOrders(S) ==
    {q \in [1..Cardinality(S) -> S] : \A i, j \in 1..Cardinality(S) : q[i] = q[j] => i = j}

\* A success that looks at the main run only.
SuccessOfMainOnly(main_test_successful, other_test_successes) ==
    main_test_successful

\* PythonTests._run: main_test_successful and other_tests_successful.
Success(main_test_successful, other_test_successes) ==
    main_test_successful /\ (\A ok \in other_test_successes : ok)

\* A run that prunes the suite's main files down to those on disk.
AfterRunPruned(s, d) == [suite |-> [s EXCEPT !.main = @ \cap d], disk |-> d]

\* PythonTests._run, what it leaves behind: it assigns no attribute of self
\* and writes no file (it reads main_test_files and other_tests, starts
\* the subprocess and combines results held in local variables).
AfterRun(s, d) == [suite |-> s, disk |-> d]

RECURSIVE run(_, _)

\* PythonTests._run: the main files go to pytest, every child is run in
\* the iteration order of other_tests, the successes are combined and the
\* outputs joined.  The set holds one result per iteration order.
_run(s, e) ==
    LET n == Cardinality(s.others)
        all == UNION {run(o, e) : o \in s.others}
    IN  {[ok |-> Success(returncode(s.main, e) = 0, {rs[i].ok : i \in 1..n}),
          out |-> Join(TEST_RESULT_SEPARATOR,
                       <<stdout(s.main)>> \o [i \in 1..n |-> rs[i].out])] :
            rs \in UNION {{r \in [1..n -> all] : \A i \in 1..n : r[i] \in run(q[i], e)} :
                            q \in IterationOrders(s.others)}}

\* Tests.run: a suite without an existing test file fails with empty
\* diagnostics and starts nothing; any other suite is run by _run.
run(s, e) ==
    IF test_files(s, e.disk) = {}
    THEN {[ok |-> FALSE, out |-> ""]}
    ELSE _run(s, e)

----------------------------------------------------------------------------
(* Values and errors of build *)

NoSubcoderAvailable == "ValueError: No coders to choose from."
UnpackError == "ValueError: wrong number of values to unpack"
AttributeError == "AttributeError: object has no attribute test_files"
CollaboratorError == "RuntimeError: Failed to generate text."

\* The single characters of a path string, which set.update(path) adds
\* when handed a string instead of a set of paths.
Chars(p) == {"char of " \o p}

\* A return statement that leaves the test files out.
ReturnsProjectFilesOnly(f) ==
    [shape |-> "set", elems |-> f.touched_project_files]

\* Coder.build, the return statement.
ReturnValue(f) ==
    [shape |-> "set", elems |-> f.touched_project_files \cup f.touched_test_files]

\* `a, b = value`: the ways the tuple-unpacking at the sub-build call can
\* bind (files, tests); the empty set when it raises ValueError.
Unpack(v) ==
    IF v.shape = "pair"
    THEN {[files |-> v.first, tests |-> v.second]}
    ELSE IF Cardinality(v.elems) = 2
    THEN {[files |-> Chars(x), tests |-> StrValue({y})] :
            <<x, y>> \in {p \in v.elems \X v.elems : p[1] # p[2]}}
    ELSE {}

----------------------------------------------------------------------------
(* Call log: every frame records the names of the collaborator calls its  *)
(* build made, in order, and the arguments and answer of the latest one.   *)

\* Python's None as a project_home, and what os.getcwd() gives.
NoHome == "None"
getcwd == "cwd"

\* Coder.build: project_home = project_home or os.getcwd()
ProjectHome(project_home) ==
    IF project_home = NoHome THEN getcwd ELSE project_home

\* One call.  result: what should_generate_dev_plan or run answered;
\* n: the length of the plan generate_dev_plan answered; found: what
\* test_files() gave after a test generation; suite: the suite run() ran;
\* raised: the call raised; project_home: the project_home the call was
\* given, None when build passed none.
Call(op) ==
    [op |-> op, project_home |-> NoHome, integration |-> FALSE, existing |-> {}, results |-> "None",
     feedback |-> "", result |-> FALSE, out |-> "", n |-> 0, found |-> {},
     suite |-> NoTests, raised |-> FALSE]

\* A Python value handed to the hook: its type's name and its characters.
\* Str(t) is the text t.
Str(t) == [type |-> "str", value |-> t]

\* A hook that hands back the printed form of whatever it is given.
HookStringifies(test_results) == test_results.value

\* Coder.feedback_hook, the default hook: text is returned as it is, any
\* other value gives the empty string.
feedback_hook(test_results) ==
  IF test_results.type = "str" THEN test_results.value ELSE ""

\* Coder.generate_tests: which generator the integration flag selects.
generate_tests(integration) ==
    IF integration THEN "generate_integration_tests" ELSE "generate_unit_tests"

\* The inverted polarity: integration tests when unit tests exist.
IntegrationWhenUnitTestsExist(unit_tests) == unit_tests.kind # "NoTests"

\* Coder.build: the test-kind decision.
should_generate_integration_tests(unit_tests) == unit_tests.kind = "NoTests"

\* A loop that is left after the first run whatever its result.
LoopExitsAlways(passes_tests) == TRUE

\* Coder.build: `while not passes_tests`.
LoopExits(passes_tests) == passes_tests

\* A build that plans whatever should_generate_dev_plan answers.
BranchAlwaysPlans(complex) == "generate_dev_plan"

\* Coder.build: the branch on should_generate_dev_plan.
Branch(complex) == IF complex THEN "generate_dev_plan" ELSE "code"

\* Coder.build: `for dev_step in dev_plan`, entered after generate_dev_plan.
EnterPlan(n) == IF n = 0 THEN "generate_tests" ELSE "choose_subcoder"

\* choose_subcoder without its guard.
ChooseGuardMissing(allowed) == FALSE

\* Coder.choose_subcoder: the guard on an empty candidate set.
ChooseGuardRaises(allowed) == Cardinality(allowed) = 0

\* Coder._choose_subcoder: the coders the selection model can name.
_choose_subcoder(allowed) == allowed

\* A loop that forgets the test files found so far.
ExistingForgotten(f) == {}

\* Coder.build: existing_test_files handed to generate_tests in the loop.
ExistingTestFiles(f) == f.touched_test_files

----------------------------------------------------------------------------
(* Frames: the local variables of one build invocation, its position, and *)
(* what it has observed (case: the answer of should_generate_dev_plan;      *)
(* discovered: every test file a test_files() call has returned to it;      *)
(* reported: every path a step of this build has returned to it).           *)

Frame(specification, project_home, pc) ==
    [specification |-> specification,
     project_home |-> ProjectHome(project_home),
     pc |-> pc,
     touched_project_files |-> {},
     touched_test_files |-> {},
     unit_tests |-> NoTests,
     generated_tests |-> NoTests,
     integration |-> FALSE,
     dev_plan |-> <<>>,
     step |-> 0,
     subcoder |-> "",
     passes_tests |-> FALSE,
     test_results |-> "None",
     runs |-> 0,
     error |-> "",
     retval |-> [shape |-> "none", elems |-> {}],
     case |-> "undecided",
     discovered |-> {},
     reported |-> {},
     calls |-> <<>>,
     last |-> Call("none")]

\* A build that starts at scaffold, without a design.
NewFrameWithoutDesign(specification, project_home) ==
    Frame(specification, project_home, "scaffold")

\* Entry of Coder.build: empty touched sets, design_solution comes first.
NewFrame(specification, project_home) ==
    Frame(specification, project_home, "design_solution")

Depth == Len(stack)
Top == stack[Depth]
SetTop(f) == [stack EXCEPT ![Depth] = f]
Running == Depth > 0 /\ Top.pc \notin {"returned", "raised"}
Log(f, c) ==
    [f EXCEPT !.calls = Append(f.calls, c.op), !.last = c,
              !.discovered = @ \cup c.found,
              !.reported = @ \cup c.found]
\* An exception that is noted while build goes on where it was.
RaiseAndGoOn(f, e) == [f EXCEPT !.error = e]

\* An exception leaves build: nothing of build runs after it.
Raise(f, e) == [f EXCEPT !.pc = "raised", !.error = e]

\* The bench on which the suite operations are applied: three operand
\* suites, the environment of a test run, the operation applied last and
\* what it gave (merged: a += b; left, right: (a += b) += c and a += (b += c);
\* files: test_files(); executed, handed: whether pytest was started and on
\* which files; ok, out: what run() returned; again: the diagnostics of a
\* second run; main_ok, children: the exit of the main run and each child's
\* success; after_merge: the subject of the operation is the merged suite).
Bench(op, a, b, c, passing, cwd) ==
    [op |-> op, a |-> a, b |-> b, c |-> c, passing |-> passing, cwd |-> cwd,
     subject |-> a, after_merge |-> FALSE, merged |-> NoTests, left |-> NoTests, right |-> NoTests,
     files |-> {}, executed |-> FALSE, handed |-> {}, ok |-> FALSE, out |-> "",
     again |-> "", main_ok |-> FALSE, children |-> {}]

Init ==
    /\ stack = <<NewFrame("spec", "project_home")>>
    /\ disk = {}
    /\ allowed_subcoders \in SUBSET CoderClasses
    /\ lab = Bench("unused", NoTests, NoTests, NoTests, {}, FALSE)

----------------------------------------------------------------------------
(* Coder.build, one action per collaborator call *)

\* code_design = self.design_solution(specification)
Design ==
    /\ Running /\ Top.pc = "design_solution"
    /\ stack' = SetTop([Log(Top, Call("design_solution")) EXCEPT !.pc = "scaffold"])
    /\ UNCHANGED <<disk, allowed_subcoders, lab>>

\* touched_project_files.update(self.scaffold(code_design, project_home))
Scaffold ==
    /\ Running /\ Top.pc = "scaffold"
    /\ \E files \in SUBSET ProjPaths :
        /\ stack' = SetTop([Log(Top, [Call("scaffold") EXCEPT
                                        !.project_home = Top.project_home]) EXCEPT
                !.pc = "should_generate_dev_plan",
                !.touched_project_files = @ \cup files,
                !.reported = @ \cup files])
        /\ disk' = disk \cup files
    /\ UNCHANGED <<allowed_subcoders, lab>>

\* if self.should_generate_dev_plan(code_design):
Decide ==
    /\ Running /\ Top.pc = "should_generate_dev_plan"
    /\ \E complex \in BOOLEAN :
        /\ complex => Depth < MaxDepth
        /\ stack' = SetTop([Log(Top, [Call("should_generate_dev_plan") EXCEPT
                                        !.result = complex]) EXCEPT
                !.case = IF complex THEN "composite" ELSE "atomic",
                !.pc = Branch(complex)])
    /\ UNCHANGED <<disk, allowed_subcoders, lab>>

\* dev_plan = self.generate_dev_plan(code_design); for dev_step in dev_plan:
Plan ==
    /\ Running /\ Top.pc = "generate_dev_plan"
    /\ \E n \in 0..MaxPlan :
        stack' = SetTop([Log(Top, [Call("generate_dev_plan") EXCEPT !.n = n]) EXCEPT
                !.dev_plan = [i \in 1..n |-> "step"],
                !.step = 1,
                !.pc = EnterPlan(n)])
    /\ UNCHANGED <<disk, allowed_subcoders, lab>>

\* subcoder = self.choose_subcoder(dev_step, self.allowed_subcoders)
Select ==
    /\ Running /\ Top.pc = "choose_subcoder"
    /\ IF ChooseGuardRaises(allowed_subcoders)
       THEN stack' = SetTop(Raise(Top, NoSubcoderAvailable))
       ELSE IF _choose_subcoder(allowed_subcoders) = {}
       THEN stack' = SetTop(Raise(Log(Top, [Call("_choose_subcoder") EXCEPT
                                            !.raised = TRUE]), CollaboratorError))
       ELSE \E c \in _choose_subcoder(allowed_subcoders) :
            stack' = SetTop([Log(Top, Call("_choose_subcoder")) EXCEPT
                    !.subcoder = c, !.pc = "build"])
    /\ UNCHANGED <<disk, allowed_subcoders, lab>>

\* subcoder.build(specification=dev_step, project_home=project_home): the call
Delegate ==
    /\ Running /\ Top.pc = "build"
    /\ stack' = Append(SetTop([Log(Top, [Call("build") EXCEPT
                                            !.project_home = Top.project_home]) EXCEPT
                                !.pc = "in_build"]),
                       NewFrame(Top.dev_plan[Top.step], Top.project_home))
    /\ UNCHANGED <<disk, allowed_subcoders, lab>>

\* touched_project_files.update(self.code(code_design))
Code ==
    /\ Running /\ Top.pc = "code"
    /\ \E files \in SUBSET ProjPaths :
        /\ stack' = SetTop([Log(Top, Call("code")) EXCEPT
                !.pc = "generate_tests",
                !.touched_project_files = @ \cup files,
                !.reported = @ \cup files])
        /\ disk' = disk \cup files
    /\ UNCHANGED <<allowed_subcoders, lab>>

\* What a test generator answers: a suite and the test files it wrote.
Generated ==
    {[tests |-> NoTests, written |-> {}]} \cup
    {[tests |-> PythonTests(p[1]), written |-> p[2]] :
        p \in {q \in (SUBSET TestPaths) \X (SUBSET TestPaths) : q[2] \subseteq q[1]}}

\* The test-kind decision, the first generate_tests, `generated_tests +=
\* unit_tests` and touched_test_files.update(generated_tests.test_files()).
\* generate_tests is called without project_home, which defaults to None.
Generate ==
    /\ Running /\ Top.pc = "generate_tests"
    /\ \E g \in Generated :
        LET flag == should_generate_integration_tests(Top.unit_tests)
            merged == Merge(g.tests, Top.unit_tests)
            d == disk \cup g.written
            found == IF TestFilesRaises(merged) THEN {} ELSE test_files(merged, d)
            called == [Log(Top, [Call(generate_tests(flag)) EXCEPT
                                    !.project_home = NoHome,
                                    !.integration = flag, !.found = found]) EXCEPT
                            !.integration = flag,
                            !.generated_tests = merged]
        IN  /\ disk' = d
            /\ stack' = SetTop(
                    IF TestFilesRaises(merged)
                    THEN Raise(called, AttributeError)
                    ELSE [called EXCEPT !.touched_test_files = @ \cup found,
                                        !.pc = "run"])
    /\ UNCHANGED <<allowed_subcoders, lab>>

\* passes_tests, test_results = generated_tests.run(); the loop test
Run ==
    /\ Running /\ Top.pc = "run"
    /\ \E r \in RunOutcomes(Top.generated_tests, disk) :
        stack' = SetTop([Log(Top, [Call("run") EXCEPT !.result = r.ok, !.out = r.out,
                                                !.suite = Top.generated_tests]) EXCEPT
                !.passes_tests = r.ok,
                !.test_results = r.out,
                !.runs = @ + 1,
                !.pc = IF LoopExits(r.ok) THEN "return" ELSE "refine"])
    /\ UNCHANGED <<disk, allowed_subcoders, lab>>

\* feedback = self.feedback_hook(test_results);
\* touched_project_files.update(self.refine(specification, touched_project_files, feedback))
Refine ==
    /\ Running /\ Top.pc = "refine"
    /\ Top.runs < MaxRuns
    /\ \E files \in SUBSET ProjPaths :
        /\ stack' = SetTop([Log(Top, [Call("refine") EXCEPT
                                        !.feedback = feedback_hook(Str(Top.test_results))]) EXCEPT
                !.pc = "regenerate_tests",
                !.touched_project_files = @ \cup files,
                !.reported = @ \cup files])
        /\ disk' = disk \cup files
    /\ UNCHANGED <<allowed_subcoders, lab>>

\* new_tests = self.generate_tests(..., existing_test_files=touched_test_files,
\* test_results=test_results); generated_tests += new_tests;
\* touched_test_files.update(new_tests.test_files())
Regenerate ==
    /\ Running /\ Top.pc = "regenerate_tests"
    /\ \E g \in Generated :
        LET d == disk \cup g.written
            merged == Merge(Top.generated_tests, g.tests)
            found == test_files(g.tests, d)
        IN  /\ disk' = d
            /\ stack' = SetTop([Log(Top, [Call(generate_tests(Top.integration)) EXCEPT
                                    !.project_home = NoHome,
                                    !.integration = Top.integration,
                                    !.existing = ExistingTestFiles(Top),
                                    !.results = Top.test_results,
                                    !.found = found]) EXCEPT
                    !.generated_tests = merged,
                    !.touched_test_files = @ \cup found,
                    !.pc = "run"])
    /\ UNCHANGED <<allowed_subcoders, lab>>

\* The collaborator called at each position of build.
CallAt(f) ==
    IF f.pc = "generate_tests"
    THEN generate_tests(should_generate_integration_tests(f.unit_tests))
    ELSE IF f.pc = "regenerate_tests" THEN generate_tests(f.integration)
    ELSE f.pc

\* A collaborator call raises (the generation backend gave up after its
\* tries, the test subprocess could not be started): build has no handler.
CollaboratorRaises ==
    /\ Running
    /\ Top.pc \in {"design_solution", "scaffold", "should_generate_dev_plan",
                   "generate_dev_plan", "choose_subcoder", "code",
                   "generate_tests", "run", "refine", "regenerate_tests"}
    /\ Top.pc = "choose_subcoder" => ~ChooseGuardRaises(allowed_subcoders)
    /\ Top.pc = "refine" => Top.runs < MaxRuns
    /\ stack' = SetTop(Raise(Log(
            [Top EXCEPT !.integration =
                IF Top.pc = "generate_tests"
                THEN should_generate_integration_tests(Top.unit_tests) ELSE @],
            [Call(IF Top.pc = "choose_subcoder" THEN "_choose_subcoder" ELSE CallAt(Top))
                EXCEPT !.raised = TRUE,
                       !.project_home =
                          IF Top.pc = "scaffold" THEN Top.project_home ELSE NoHome]),
            CollaboratorError))
    /\ UNCHANGED <<disk, allowed_subcoders, lab>>

\* return touched_project_files | touched_test_files, at the top level
Return ==
    /\ Depth = 1 /\ Top.pc = "return"
    /\ stack' = SetTop([Top EXCEPT !.pc = "returned", !.retval = ReturnValue(Top)])
    /\ UNCHANGED <<disk, allowed_subcoders, lab>>

\* The return of a sub-build and the caller's
\* `subcoder_touched_files, subcoder_tests = subcoder.build(...)`;
\* touched_project_files.update(subcoder_touched_files); unit_tests += subcoder_tests
SubReturn ==
    /\ Depth > 1 /\ Top.pc = "return"
    /\ LET child == Top
           v == ReturnValue(child)
           parent == stack[Depth - 1]
           rest == SubSeq(stack, 1, Depth - 2)
       IN  IF Unpack(v) = {}
           THEN stack' = Append(rest, Raise(parent, UnpackError))
           ELSE \E u \in Unpack(v) :
                stack' = Append(rest, [parent EXCEPT
                    !.touched_project_files = @ \cup u.files,
                    !.reported = @ \cup v.elems,
                    !.unit_tests = Merge(@, u.tests),
                    !.step = @ + 1,
                    !.pc = IF parent.step < Len(parent.dev_plan)
                           THEN "choose_subcoder" ELSE "generate_tests"])
    /\ UNCHANGED <<disk, allowed_subcoders, lab>>

\* An exception leaving a sub-build passes through the caller's build, which
\* has no handler.
Propagate ==
    /\ Depth > 1 /\ Top.pc = "raised"
    /\ stack' = Append(SubSeq(stack, 1, Depth - 2), Raise(stack[Depth - 1], Top.error))
    /\ UNCHANGED <<disk, allowed_subcoders, lab>>

Next ==
    \/ Design \/ Scaffold \/ Decide \/ Plan \/ Select \/ Delegate \/ Code
    \/ Generate \/ Run \/ Refine \/ Regenerate \/ CollaboratorRaises
    \/ Return \/ SubReturn \/ Propagate

Spec == Init /\ [][Next]_vars

----------------------------------------------------------------------------
(* The suite operations applied to operands drawn from a bounded universe *)

\* Suites without children, of every kind and over every set of test paths.
Leaves ==
    {NoTests} \cup {PythonTests(m) : m \in SUBSET TestPaths}
              \cup {OtherTests(m, {}) : m \in SUBSET TestPaths}

\* PythonTests suites holding one or two children of another kind.
Nested ==
    {[kind |-> "PythonTests", main |-> m, others |-> cs] :
        m \in {{}, {"t1.py"}},
        cs \in (SUBSET {OtherTests({p}, {}) : p \in TestPaths}) \ {{}}}

Operands == Leaves \cup Nested

Env == [disk |-> disk, passing |-> lab.passing, cwd |-> lab.cwd]

InitSuites ==
    /\ stack = <<>>
    /\ allowed_subcoders = {}
    /\ disk \in SUBSET TestPaths
    /\ \E a \in Operands, b \in Operands, c \in Leaves,
          passing \in SUBSET disk, cwd \in BOOLEAN :
            lab = Bench("start", a, b, c, passing, cwd)

\* a += b
ApplyMerge ==
    /\ lab.op = "start"
    /\ lab' = [lab EXCEPT !.op = "merge", !.after_merge = TRUE,
                          !.merged = Merge(lab.a, lab.b),
                          !.subject = Merge(lab.a, lab.b)]
    /\ UNCHANGED <<stack, disk, allowed_subcoders>>

\* (a += b) += c against a += (b += c)
ApplyMergeTwice ==
    /\ lab.op = "start"
    /\ lab' = [lab EXCEPT !.op = "merge twice",
                          !.left = Merge(Merge(lab.a, lab.b), lab.c),
                          !.right = Merge(lab.a, Merge(lab.b, lab.c))]
    /\ UNCHANGED <<stack, disk, allowed_subcoders>>

\* subject.test_files(), on a or on the merged suite
ApplyTestFiles ==
    /\ lab.op \in {"start", "merge"}
    /\ lab' = [lab EXCEPT !.op = "test_files", !.files = test_files(lab.subject, disk)]
    /\ UNCHANGED <<stack, disk, allowed_subcoders>>

\* subject.run(), twice in the same environment
ApplyRun ==
    /\ lab.op \in {"start", "merge"}
    /\ \E r \in run(lab.subject, Env), r2 \in run(lab.subject, Env) :
        LET started == test_files(lab.subject, disk) # {}
        IN  lab' = [lab EXCEPT
                !.op = "run",
                !.executed = started,
                !.handed = IF started THEN lab.subject.main ELSE {},
                !.main_ok = started /\ returncode(lab.subject.main, Env) = 0,
                !.children = IF started
                             THEN {[suite |-> o, ok |-> \A x \in run(o, Env) : x.ok] :
                                        o \in lab.subject.others}
                             ELSE {},
                !.ok = r.ok, !.out = r.out, !.again = r2.out,
                !.subject = AfterRun(lab.subject, disk).suite]
    /\ disk' = AfterRun(lab.subject, disk).disk
    /\ UNCHANGED <<stack, allowed_subcoders>>

NextSuites == ApplyMerge \/ ApplyMergeTwice \/ ApplyTestFiles \/ ApplyRun

SpecSuites == InitSuites /\ [][NextSuites]_vars

----------------------------------------------------------------------------
(* The generation model: construction of OpenAIWrapper (directly or by a   *)
(* coder), ModelWrapper.__call__ and OpenAIWrapper.generate.  Time is      *)
(* counted in ticks of 0.05 s.                                              *)

\* Most tries a caller asks __call__ for.
MaxTries == 2
\* Largest rate_limit_rpm explored.
MaxRpm == 2
\* Most requests one wrapper is followed through.
MaxRequests == 4

TicksPerSecond == 20
SECONDS_PER_MINUTE == 60
\* WAIT_EPSILON = 0.05 s, one tick.
WAIT_EPSILON == 1
Window == SECONDS_PER_MINUTE * TicksPerSecond

\* The wall clock when the wrapper is constructed, far from the epoch.
StartTime == 10 * Window
\* Time that passes between two steps: none, half a minute, over a minute.
Elapsed == {0, Window \div 2, Window + 2 * WAIT_EPSILON}

Absent == "absent"
Keys == {"model", "top_p"}
\* OpenAIWrapper.DEFAULT_CONFIG, the keys followed here.
DEFAULT_CONFIG == [model |-> "gpt-3.5-turbo", top_p |-> "0.3"]
\* Keyword arguments: each key given with a value, or absent.
Kwargs == [model : {Absent, "gpt-4"}, top_p : {Absent, "0.7"}]
CallKwargs == [model : {Absent}, top_p : {Absent, "0.9"}]
NoKwargs == [model |-> Absent, top_p |-> Absent]

\* dict.update: the keys given replace the values held.
Update(config, kwargs) ==
    [k \in Keys |-> IF kwargs[k] # Absent THEN kwargs[k] ELSE config[k]]

\* ModelWrapper.__init__: DEFAULT_CONFIG.copy() updated with the keywords.
default_generate_config(kwargs) == Update(DEFAULT_CONFIG, kwargs)

Routes == {"OpenAIWrapper", "OpenAICoder", "PythonOpenAICoder"}
DuplicateKeyword == "TypeError: got multiple values for keyword argument 'model'"

\* The keywords that reach OpenAIWrapper.__init__, or the error of the call.
\* PythonOpenAICoder passes model=model_name next to **default_generate_config;
\* OpenAICoder merges its (empty) default_config with the keywords.
WrapperKwargs(route, given) ==
    IF route = "PythonOpenAICoder"
    THEN IF given.model # Absent
         THEN [error |-> DuplicateKeyword, kwargs |-> NoKwargs]
         ELSE [error |-> "", kwargs |-> [given EXCEPT !.model = "gpt-4-turbo"]]
    ELSE [error |-> "", kwargs |-> given]

\* A generate that never sleeps.
NoSleep(oldest, now) == 0

\* OpenAIWrapper.generate: how long it sleeps before the request.
SleepTime(oldest, now) ==
    LET one_minute_ago == now - Window
    IN  IF oldest > one_minute_ago
        THEN (oldest - one_minute_ago) + WAIT_EPSILON
        ELSE 0

\* deque(maxlen=n).append
DequeAppend(q, t, n) == IF Len(q) < n THEN Append(q, t) ELSE Append(Tail(q), t)

\* A loop that goes on trying whatever max_tries says.
TriesUnbounded(tries, max_tries) == TRUE

\* ModelWrapper.__call__: `for _ in range(max_tries)`.
MoreTries(tries, max_tries) == tries < max_tries

\* The wrapper after construction along a route.  phase: "ready" or, when
\* the constructor raised, "rejected"; issued: the times of all requests
\* sent; generated: how often generate was called; outcomes: how each try of
\* the current __call__ ended; sent: the configuration of the last request.
Constructed(route, given, rpm, home) ==
    LET w == WrapperKwargs(route, given)
    IN  [phase |-> IF w.error = "" THEN "ready" ELSE "rejected",
         error |-> w.error,
         route |-> route, given |-> given,
         project_home |-> IF route = "OpenAIWrapper" \/ w.error # "" THEN "" ELSE home,
         home |-> home,
         default_generate_config |-> default_generate_config(w.kwargs),
         rate_limit_rpm |-> rpm,
         last_request_times |-> <<0>>,
         now |-> StartTime,
         issued |-> <<>>, generated |-> 0, slept |-> 0,
         max_tries |-> 0, kwargs |-> NoKwargs, tries |-> 0, outcomes |-> <<>>,
         sent |-> DEFAULT_CONFIG]

InitModel ==
    /\ stack = <<>>
    /\ disk = {}
    /\ allowed_subcoders = {}
    /\ \E route \in Routes, given \in Kwargs, rpm \in 1..MaxRpm :
        lab = Constructed(route, given, rpm, "project_home")

\* model(model_input, max_tries=..., **kwargs): entry of __call__
BeginCall ==
    /\ lab.phase \in {"ready", "returned", "failed"}
    /\ Len(lab.issued) < MaxRequests
    /\ \E max_tries \in 0..MaxTries, kwargs \in CallKwargs :
        lab' = [lab EXCEPT !.phase = "calling", !.max_tries = max_tries,
                           !.kwargs = kwargs, !.tries = 0, !.outcomes = <<>>]
    /\ UNCHANGED <<stack, disk, allowed_subcoders>>

\* One try: generate (sleep, record the time, send the request) and
\* process_response; either may raise, which the loop catches.
Try ==
    /\ lab.phase = "calling"
    /\ MoreTries(lab.tries, lab.max_tries)
    /\ Len(lab.issued) < MaxRequests
    /\ \E dt \in Elapsed, outcome \in {"returned", "generate raised", "process raised"} :
        LET entered == lab.now + dt
            sleep == SleepTime(lab.last_request_times[1], entered)
            requested == entered + sleep
        IN  lab' = [lab EXCEPT
                !.now = requested,
                !.slept = sleep,
                !.last_request_times = DequeAppend(@, requested, lab.rate_limit_rpm),
                !.issued = Append(@, requested),
                !.generated = @ + 1,
                !.sent = Update(lab.default_generate_config, lab.kwargs),
                !.tries = @ + 1,
                !.outcomes = Append(@, outcome),
                !.phase = IF outcome = "returned" THEN "returned" ELSE "calling"]
    /\ UNCHANGED <<stack, disk, allowed_subcoders>>

\* raise RuntimeError("Failed to generate text.")
Exhaust ==
    /\ lab.phase = "calling"
    /\ ~MoreTries(lab.tries, lab.max_tries)
    /\ lab' = [lab EXCEPT !.phase = "failed", !.error = CollaboratorError]
    /\ UNCHANGED <<stack, disk, allowed_subcoders>>

NextModel == BeginCall \/ Try \/ Exhaust

SpecModel == InitModel /\ [][NextModel]_vars

----------------------------------------------------------------------------
(* The default feedback hook, applied to values of any type.  lab holds the
   values given so far and the feedback returned for each. *)

MaxHookCalls == 3

HookTexts == {"", "d1", "d2", "d1\n\nd2"}

\* Values that are not text: None, bytes, an int, a (bool, str) pair.
NonText ==
  {[type |-> "NoneType", value |-> "None"],
   [type |-> "bytes", value |-> "d1"],
   [type |-> "int", value |-> "1"],
   [type |-> "tuple", value |-> "(False, 'd1')"]}

HookValues == {Str(t) : t \in HookTexts} \cup NonText

InitHook ==
  /\ stack = <<>>
  /\ disk = {}
  /\ allowed_subcoders = {}
  /\ lab = [op |-> "feedback_hook", given |-> <<>>, feedback |-> <<>>]

\* feedback = self.feedback_hook(test_results)
ApplyHook ==
  /\ Len(lab.given) < MaxHookCalls
  /\ \E test_results \in HookValues :
       lab' = [lab EXCEPT !.given = Append(@, test_results),
                          !.feedback = Append(@, feedback_hook(test_results))]
  /\ UNCHANGED <<stack, disk, allowed_subcoders>>

NextHook == ApplyHook

SpecHook == InitHook /\ [][NextHook]_vars

----------------------------------------------------------------------------
(* The write-code loop of OpenAICoder and PythonOpenAICoder.  lab holds the
   arguments of one invocation of _write_code_loop, the files it can reach,
   its local variables and what it has done so far.  The model's responses
   are inputs of the loop. *)

max_code_files == 5
MaxToolCalls == 2

\* Python's None, as the value of current_file or of a missing "file"
\* argument.
NoneFile == [dir |-> "None", name |-> "None"]

Path(dir, name) == [dir |-> dir, name |-> name]
WritePaths == {Path("src", "a.py"), Path("", "b.py")}
WriteDirs == {"src"}

\* os.path.dirname
dirname(path) == path.dir

Missing == "missing"
OldCode == "old"
Contents == {"", "code"}

Variants == {"OpenAICoder", "PythonOpenAICoder"}

\* What self.model is: the OpenAIWrapper the constructors build, or a
\* callable that takes messages=, tools= and tool_choice=.
ModelKinds == {"OpenAIWrapper", "takes messages"}

MissingModelInput ==
  "TypeError: __call__() missing 1 required positional argument: 'model_input'"
FailedToGenerate == "RuntimeError: Failed to generate text."
PathIsNone == "TypeError: stat: path should be string, not NoneType"
NoSuchDirectory == "FileNotFoundError: No such file or directory"

\* The name each variant's loop compares a tool call with to stop.
FinishName(variant) ==
  IF variant = "OpenAICoder" THEN "finish" ELSE "finish_writing_code"

\* openai_code_writing_tools = [select_file, finish]
openai_code_writing_tools == {"select_file", "finish"}

SelectFile(file) == [name |-> "select_file", file |-> file]
ToolCall(name) == [name |-> name, file |-> NoneFile]

ToolCallValues ==
  {SelectFile(file) : file \in WritePaths \cup {NoneFile}}
    \cup {ToolCall("finish"), ToolCall("finish_writing_code")}

ToolCallSeqs == UNION {[1..n -> ToolCallValues] : n \in 0..MaxToolCalls}

\* os.path.exists on a path of the project
exists(path, files) == files[path] # Missing

\* The body of `for tool_call in tool_calls` for one tool call; l holds the
\* loop's local variables.  appended is the last prompt appended to
\* model_input; current_existed records whether the selected file was on
\* disk when it was selected.
HandleToolCall(l, tool_call, variant, overwrite_files, files) ==
  IF l.error # "" THEN l
  ELSE IF tool_call.name = "select_file" THEN
    LET file == tool_call.file
        l1 == [l EXCEPT !.current_file = file,
                        !.current_existed =
                           file \in WritePaths /\ exists(file, files)]
        selected == [l1 EXCEPT !.appended = "I will write",
                               !.modified_files = @ \cup {file}]
    IN IF overwrite_files THEN selected
       ELSE IF file = NoneFile THEN [l1 EXCEPT !.error = PathIsNone]
       ELSE IF exists(file, files) THEN
         IF dirname(file) = "" THEN [l1 EXCEPT !.error = NoSuchDirectory]
         ELSE [l1 EXCEPT !.appended = "already exists",
                         !.write_code_to_file = FALSE]
       ELSE selected
  ELSE IF tool_call.name = FinishName(variant) THEN
    [l EXCEPT !.finished_writing_code = TRUE]
  ELSE l

RECURSIVE HandleToolCalls(_, _, _, _, _)
HandleToolCalls(l, tool_calls, variant, overwrite_files, files) ==
  IF tool_calls = <<>> THEN l
  ELSE HandleToolCalls(
         HandleToolCall(l, Head(tool_calls), variant, overwrite_files, files),
         Tail(tool_calls), variant, overwrite_files, files)

\* open(current_file, "w") needs the file's directory.
CanOpen(path, dirs) == dirname(path) = "" \/ dirname(path) \in dirs

Calls(tool_calls, name) ==
  \E k \in 1..Len(tool_calls) : tool_calls[k].name = name

\* A loop that goes on for as long as the model answers.
IterationsUnbounded(calls) == TRUE

\* for _ in range(max_code_files): another iteration follows `calls`
\* iterations.
MoreIterations(calls) == calls < max_code_files

\* The state at the start of _write_code_loop.
WriteLoop(variant, model, overwrite_files, existed, dirs) ==
  [op |-> "_write_code_loop",
   variant |-> variant,
   model |-> model,
   overwrite_files |-> overwrite_files,
   existed |-> existed,
   dirs |-> dirs,
   files |-> [path \in WritePaths |->
                IF path \in existed THEN OldCode ELSE Missing],
   phase |-> "looping",
   error |-> "",
   calls |-> 0,
   current_file |-> NoneFile,
   current_existed |-> FALSE,
   modified_files |-> {},
   appended |-> "",
   written |-> {},
   wrote_existing |-> {},
   wrote_unselected |-> FALSE,
   finish_at |-> 0,
   finish_written |-> FALSE]

InitWriteLoop ==
  /\ stack = <<>>
  /\ disk = {}
  /\ allowed_subcoders = {}
  /\ \E variant \in Variants, model \in ModelKinds,
        overwrite_files \in BOOLEAN,
        existed \in SUBSET WritePaths, dirs \in SUBSET WriteDirs :
       /\ \A path \in existed : CanOpen(path, dirs)
       /\ lab = WriteLoop(variant, model, overwrite_files, existed, dirs)

\* One iteration of `for _ in range(max_code_files)` in which self.model
\* returns a response: the tool calls are handled, then the content is
\* written, and the loop returns after a finish call or the last iteration.
WriteCodeIteration ==
  /\ lab.op = "_write_code_loop"
  /\ lab.phase = "looping"
  /\ MoreIterations(lab.calls)
  /\ lab.model = "takes messages"
  /\ \E tool_calls \in ToolCallSeqs, content \in Contents :
       LET l0 == [current_file |-> lab.current_file,
                  current_existed |-> lab.current_existed,
                  modified_files |-> lab.modified_files,
                  appended |-> lab.appended,
                  finished_writing_code |-> FALSE,
                  write_code_to_file |-> TRUE,
                  error |-> ""]
           l == HandleToolCalls(l0, tool_calls, lab.variant,
                                lab.overwrite_files, lab.files)
           finish_called == Calls(tool_calls, "finish")
           wants_write == /\ l.error = ""
                          /\ ~l.finished_writing_code
                          /\ content # ""
                          /\ l.write_code_to_file
                          /\ l.current_file # NoneFile
           writes == wants_write /\ CanOpen(l.current_file, lab.dirs)
           error == IF l.error # "" THEN l.error
                    ELSE IF wants_write /\ ~writes THEN NoSuchDirectory
                    ELSE ""
           calls == lab.calls + 1
       IN lab' = [lab EXCEPT
            !.calls = calls,
            !.current_file = l.current_file,
            !.current_existed = l.current_existed,
            !.modified_files = l.modified_files,
            !.appended = IF writes THEN "<code>" ELSE l.appended,
            !.files = IF writes
                        THEN [@ EXCEPT ![l.current_file] = content] ELSE @,
            !.written = IF writes THEN @ \cup {l.current_file} ELSE @,
            !.wrote_existing = IF writes /\ l.current_existed
                                 THEN @ \cup {l.current_file} ELSE @,
            !.wrote_unselected =
               @ \/ (writes /\ l.current_file \notin l.modified_files),
            !.finish_at = IF @ = 0 /\ finish_called THEN calls ELSE @,
            !.finish_written = @ \/ (writes /\ finish_called),
            !.error = error,
            !.phase = IF error # "" THEN "raised"
                      ELSE IF l.finished_writing_code
                              \/ ~MoreIterations(calls) THEN "returned"
                      ELSE "looping"]
  /\ UNCHANGED <<stack, disk, allowed_subcoders>>

\* self.model(messages=model_input, ...) raises: the OpenAIWrapper takes
\* its input as model_input, any other model may fail to generate.
ModelRaises ==
  /\ lab.op = "_write_code_loop"
  /\ lab.phase = "looping"
  /\ MoreIterations(lab.calls)
  /\ lab' = [lab EXCEPT
       !.calls = @ + 1,
       !.phase = "raised",
       !.error = IF lab.model = "OpenAIWrapper"
                   THEN MissingModelInput ELSE FailedToGenerate]
  /\ UNCHANGED <<stack, disk, allowed_subcoders>>

NextWriteLoop == WriteCodeIteration \/ ModelRaises

SpecWriteLoop == InitWriteLoop /\ [][NextWriteLoop]_vars

----------------------------------------------------------------------------
(* Suites as objects.  lab.sets holds the set objects a caller hands to
   PythonTests(test_files), lab.obj the suite objects a, b and c: main names
   the set object main_test_files refers to, others the suite objects in
   other_tests.  a is a PythonTests into which b and c are merged; b0 is
   what b held before any merge. *)

MaxMerges == 2

SetIds == {"s1", "s2", "s3"}
SuiteNames == {"a", "b", "c"}
NoSet == "none"
SuiteKinds == {"NoTests", "PythonTests", "OtherTests"}

\* PythonTests.__init__: self.main_test_files = test_files, the caller's
\* set object itself, and a new empty other_tests.  NoTests holds no set.
NewSuite(kind, files) ==
    [kind |-> kind,
     main |-> IF kind = "NoTests" THEN NoSet ELSE files,
     others |-> {}]

\* The paths in the main file set of suite x.
MainFiles(h, x) == IF h.obj[x].main = NoSet THEN {} ELSE h.sets[h.obj[x].main]

\* PythonTests._combine on objects: `self.main_test_files |=
\* tests.main_test_files` updates the set object in place, and
\* self.other_tests.add(tests) keeps a reference to tests.
CombineInPlace(h, self, tests) ==
    IF h.obj[tests].kind = "PythonTests"
    THEN [h EXCEPT !.sets[h.obj[self].main] = @ \cup MainFiles(h, tests)]
    ELSE [h EXCEPT !.obj[self].others = @ \cup {tests}]

\* Tests.__iadd__ with a PythonTests on the left: a NoTests operand changes
\* nothing, any other goes to _combine.
MergeInPlace(h, self, tests) ==
    IF h.obj[tests].kind = "NoTests" THEN h ELSE CombineInPlace(h, self, tests)

InitObjects ==
    /\ stack = <<>>
    /\ disk = {}
    /\ allowed_subcoders = {}
    /\ \E kb \in SuiteKinds, kc \in SuiteKinds,
          mb \in {"s1", "s2"}, mc \in {"s1", "s2"},
          sets \in [SetIds -> SUBSET TestPaths] :
         /\ sets["s3"] = {}
         /\ kb = "NoTests" => mb = "s2"
         /\ kc = "NoTests" => mc = "s2"
         /\ lab = [op |-> "start",
                   sets |-> sets,
                   obj |-> [x \in SuiteNames |->
                              IF x = "a" THEN NewSuite("PythonTests", "s1")
                              ELSE IF x = "b" THEN NewSuite(kb, mb)
                              ELSE NewSuite(kc, mc)],
                   b0 |-> [main |-> IF kb = "NoTests" THEN {} ELSE sets[mb],
                           others |-> {}],
                   merged |-> <<>>]

\* a += tests, for tests one of b and c; b is merged first.
MergeInto ==
    /\ lab.op \in {"start", "merge"}
    /\ Len(lab.merged) < MaxMerges
    /\ \E tests \in {"b", "c"} :
         /\ lab.merged = <<>> => tests = "b"
         /\ lab' = [MergeInPlace(lab, "a", tests) EXCEPT
                      !.op = "merge",
                      !.merged = Append(lab.merged, tests)]
    /\ UNCHANGED <<stack, disk, allowed_subcoders>>

NextObjects == MergeInto

SpecObjects == InitObjects /\ [][NextObjects]_vars

----------------------------------------------------------------------------
(* truncate_chat, applied to chats and lengths drawn from bounded sets.  A
   chat is the sequence of its characters. *)

MaxChatLen == 18

\* "... (truncated)"
TRUNCATE_MESSAGE ==
    <<".", ".", ".", " ", "(", "t", "r", "u", "n", "c", "a", "t", "e", "d", ")">>

\* Python's chat[:k]: the first k characters, or all but the last -k when k
\* is negative.
SliceTo(chat, k) ==
    LET n == Len(chat)
        stop == IF k >= 0 THEN (IF k < n THEN k ELSE n)
                ELSE (IF n + k > 0 THEN n + k ELSE 0)
    IN  SubSeq(chat, 1, stop)

truncate_chat(chat, chat_length) ==
    IF Len(chat) <= chat_length THEN chat
    ELSE SliceTo(chat, chat_length - Len(TRUNCATE_MESSAGE)) \o TRUNCATE_MESSAGE

\* Chats of every length up to MaxChatLen, made of one character.
Chats == {[i \in 1..len |-> c] : len \in 0..MaxChatLen, c \in {"a", ")"}}

InitTruncate ==
    /\ stack = <<>>
    /\ disk = {}
    /\ allowed_subcoders = {}
    /\ \E chat \in Chats, chat_length \in 0..(MaxChatLen + 1) :
         lab = [op |-> "start", chat |-> chat, chat_length |-> chat_length,
                result |-> <<>>]

ApplyTruncate ==
    /\ lab.op = "start"
    /\ lab' = [lab EXCEPT !.op = "truncate_chat",
                          !.result = truncate_chat(lab.chat, lab.chat_length)]
    /\ UNCHANGED <<stack, disk, allowed_subcoders>>

NextTruncate == ApplyTruncate

SpecTruncate == InitTruncate /\ [][NextTruncate]_vars

----------------------------------------------------------------------------
(* Properties of the build loop *)

Frames == {stack[i] : i \in 1..Depth}
GenOps == {"generate_integration_tests", "generate_unit_tests"}
Count(calls, ops) == Cardinality({j \in 1..Len(calls) : calls[j] \in ops})
Returning(f) == f.pc \in {"return", "returned"}

\* The errors the specification names for the loop bound and the plan check.
ConvergenceFailed == "ConvergenceFailed"
InvalidDevPlan == "InvalidDevPlan"
\* A configured iteration cap, below the number of runs explored.
MaxIterations == MaxRuns - 2

\* C1: the refine loop is bounded by the configured maximum iteration count:
\* once that many refine iterations are done and the run fails again, build
\* has failed with ConvergenceFailed instead of entering another iteration.
C1_LoopBounded ==
    \A f \in Frames :
        (/\ Count(f.calls, {"refine"}) >= MaxIterations
         /\ f.last.op = "run" /\ ~f.last.raised /\ ~f.last.result)
        => (f.pc = "raised" /\ f.error = ConvergenceFailed)

\* C2: whenever build is at its return, the latest collaborator call is a
\* run() of the final merged suite that answered success; no refine or
\* generate_tests came after it.
C2_ReturnsOnlyAfterPassingRun ==
    \A f \in Frames :
        Returning(f) =>
            /\ f.calls[Len(f.calls)] = "run"
            /\ f.last.op = "run" /\ ~f.last.raised
            /\ f.last.result
            /\ f.passes_tests
            /\ f.last.suite = f.generated_tests

\* C2 witness: a top-level build has returned after a refine iteration.
C2_Witness ==
    /\ stack[1].pc = "returned"
    /\ stack[1].runs >= 2
    /\ Count(stack[1].calls, {"refine"}) >= 1

\* C3: build returns the pair (touched_project_files | touched_test_files,
\* generated_tests), and the caller of a sub-build can unpack it.
C3_ReturnsPair ==
    \A f \in Frames :
        /\ f.pc = "returned" =>
            /\ f.retval.shape = "pair"
            /\ f.retval.first = f.touched_project_files \cup f.touched_test_files
            /\ f.retval.second = f.generated_tests
        /\ f.error # UnpackError

\* C4, step by step: a refine call follows a failed run and receives its
\* diagnostics as feedback; the next call is one generate_tests, handed those
\* diagnostics and every test file discovered so far; the next call is run.
C4_Step ==
    LET f == Top
        g == Top'
    IN  (Depth' = Depth /\ g.calls # f.calls) =>
            /\ g.last.op = "refine" =>
                /\ f.last.op = "run" /\ ~f.last.result
                /\ ~g.last.raised => g.last.feedback = f.last.out
            /\ (f.last.op = "run" /\ ~f.last.raised /\ ~f.last.result) =>
                g.last.op = "refine"
            /\ (f.last.op = "refine" /\ ~f.last.raised) =>
                /\ g.last.op \in GenOps
                /\ ~g.last.raised =>
                    /\ g.last.results = f.last.feedback
                    /\ f.discovered \subseteq g.last.existing
            /\ (f.last.op \in GenOps /\ ~f.last.raised) => g.last.op = "run"

\* C4, in total: a build that returns after k failed runs and one passing
\* run has called refine k times and generate_tests once per run.
C4_Counts ==
    \A f \in Frames :
        Returning(f) =>
            /\ Count(f.calls, {"run"}) = f.runs
            /\ Count(f.calls, {"refine"}) = f.runs - 1
            /\ Count(f.calls, GenOps) = f.runs

\* C4: if the first k runs fail and run k+1 succeeds, refine is called
\* exactly k times, each with the diagnostics of the failed run before it and
\* each followed, before the next run, by exactly one generate_tests call
\* carrying those diagnostics and the test files discovered earlier.
C4_RefineIterations == [][C4_Step]_vars /\ []C4_Counts

\* C4 witness: the generate_tests of a second refine iteration, handed a
\* non-empty set of earlier test files.
C4_Witness ==
    /\ Depth = 1
    /\ Top.last.op \in GenOps /\ ~Top.last.raised
    /\ Count(Top.calls, {"refine"}) = 2
    /\ Top.last.existing # {}
    /\ Top.last.results \in Outputs

\* C5: when the sub-build of a dev step returns, the caller goes on (it does
\* not fail on the returned value), its touched files include the
\* sub-build's files and its unit_tests is the merge of the suites so far
\* with the sub-build's suite.
C5_Delegation ==
    [][(Depth > 1 /\ Top.pc = "return") =>
        LET child == Top
            parent == stack[Depth - 1]
            after == stack'[Depth - 1]
        IN  /\ Len(stack') = Depth - 1
            /\ after.pc # "raised"
            /\ (child.touched_project_files \cup child.touched_test_files)
                    \subseteq after.touched_project_files
            /\ after.unit_tests = Merge(parent.unit_tests, child.generated_tests)]_vars

C9_EmptyPlanIsFatal ==
    \A f \in Frames :
        (/\ Count(f.calls, {"generate_dev_plan"}) = 1
         /\ ~(f.last.op = "generate_dev_plan" /\ f.last.raised)
         /\ Len(f.dev_plan) = 0)
        => /\ f.pc = "raised"
           /\ f.error = InvalidDevPlan
           /\ f.calls[Len(f.calls)] = "generate_dev_plan"

\* C10: in every build invocation the calls start design_solution, scaffold,
\* should_generate_dev_plan, then exactly one of code and generate_dev_plan,
\* each once; generate_tests and run come only after the code-or-delegate
\* branch is over.
C10_CallOrder ==
    /\ \A f \in Frames :
        LET c == f.calls
        IN  /\ Len(c) = 0 => f.pc = "design_solution"
            /\ Len(c) >= 1 => c[1] = "design_solution"
            /\ Len(c) >= 2 => c[2] = "scaffold"
            /\ Len(c) >= 3 => c[3] = "should_generate_dev_plan"
            /\ Len(c) >= 4 => c[4] \in {"code", "generate_dev_plan"}
            /\ Count(c, {"design_solution"}) <= 1
            /\ Count(c, {"scaffold"}) <= 1
            /\ Count(c, {"should_generate_dev_plan"}) <= 1
            /\ Count(c, {"code", "generate_dev_plan"}) <= 1
            /\ \A j \in 1..Len(c) :
                c[j] \in GenOps \cup {"run"} =>
                    /\ j >= 5
                    /\ \A k \in j..Len(c) :
                        c[k] \notin {"code", "generate_dev_plan", "_choose_subcoder", "build"}
    /\ \A i \in 1..(Depth - 1) : Count(stack[i].calls, GenOps \cup {"run"}) = 0

\* C10 witness: a build that delegated a dev step has reached test generation.
C10_Witness ==
    \E f \in Frames :
        /\ Count(f.calls, {"build"}) >= 1
        /\ Count(f.calls, GenOps) >= 1

----------------------------------------------------------------------------
(* Properties of the touched sets *)

\* C11, step by step: in every step, each build invocation that is there
\* before and after it has touched_project_files and touched_test_files
\* that are supersets of their previous values.
C11_Step ==
    \A i \in 1..Depth :
        i <= Len(stack') =>
            /\ stack[i].touched_project_files \subseteq stack'[i].touched_project_files
            /\ stack[i].touched_test_files \subseteq stack'[i].touched_test_files

\* C11, at the return: the set a build has returned contains every path a
\* step of that build returned to it.
C11_Returned ==
    \A f \in Frames : f.pc = "returned" => f.reported \subseteq f.retval.elems

----------------------------------------------------------------------------
(* Properties of the suite operations *)

\* What run() returned on the bench.
Returned == [ok |-> lab.ok, out |-> lab.out]

\* C12: merging with NoTests is the identity in both directions: the merge
\* of NoTests and A, and of A and NoTests, has the main files and the
\* children of A (NoTests is not nested under A) and, when run, gives a
\* result that running A gives.
C12_NoTestsIsIdentity ==
    lab.after_merge =>
        /\ lab.a.kind = "NoTests" =>
            /\ lab.merged.main = lab.b.main
            /\ lab.merged.others = lab.b.others
            /\ lab.op = "run" => Returned \in run(lab.b, Env)
        /\ lab.b.kind = "NoTests" =>
            /\ lab.merged.main = lab.a.main
            /\ lab.merged.others = lab.a.others
            /\ NoTests \notin lab.merged.others
            /\ lab.op = "run" => Returned \in run(lab.a, Env)

\* C12 witness: a PythonTests suite with a child, merged with NoTests on its
\* right, has been run and passed.
C12_Witness ==
    /\ lab.after_merge /\ lab.op = "run"
    /\ lab.b.kind = "NoTests"
    /\ lab.a.kind = "PythonTests" /\ lab.a.others # {} /\ lab.a.main # {}
    /\ lab.ok

\* C13: for suites A and B of the same concrete kind, test_files of the
\* merge of A and B is the union of test_files(A) and test_files(B), and the
\* merge has as many nested children as A.
C13_SameKindCoalesces ==
    (/\ lab.after_merge /\ lab.op = "test_files"
     /\ lab.a.kind = lab.b.kind /\ lab.a.kind # "NoTests") =>
        /\ lab.files = test_files(lab.a, disk) \cup test_files(lab.b, disk)
        /\ Cardinality(lab.merged.others) = Cardinality(lab.a.others)

\* C14: merging a suite A with a suite B of another concrete kind (B not
\* NoTests) leaves A's main files as they are and adds B to A's children;
\* B's files are among test_files of the result, and when the result is run
\* B is run with it, so the result passes only if B passes.
C14_OtherKindNests ==
    (/\ lab.after_merge
     /\ lab.a.kind # lab.b.kind /\ lab.a.kind # "NoTests" /\ lab.b.kind # "NoTests") =>
        /\ lab.merged.main = lab.a.main
        /\ lab.merged.others = lab.a.others \cup {lab.b}
        /\ lab.op = "test_files" => test_files(lab.b, disk) \subseteq lab.files
        /\ lab.op = "run" =>
            /\ lab.executed => \E ch \in lab.children : ch.suite = lab.b
            /\ lab.ok => \A r \in run(lab.b, Env) : r.ok

\* C14 witness: a PythonTests suite merged with a suite of another kind was
\* run; its own files passed and the nested suite made the run fail.
C14_Witness ==
    /\ lab.after_merge /\ lab.op = "run"
    /\ lab.a.kind = "PythonTests" /\ lab.a.main = {"t1.py"} /\ lab.a.others = {}
    /\ lab.b.kind = "OtherTests" /\ lab.b.main = {"t2.py"}
    /\ lab.executed /\ lab.main_ok /\ ~lab.ok
    /\ [suite |-> lab.b, ok |-> FALSE] \in lab.children

\* Whether run() of a suite succeeds, over the iteration orders.
Successes(s) == {r.ok : r \in run(s, Env)}

\* C15: merge is associative: for all suites A, B, C the merge of (A merged
\* with B) and C, and the merge of A and (B merged with C), have the same
\* test_files() and the same run() success.
C15_MergeAssociative ==
    lab.op = "merge twice" =>
        /\ test_files(lab.left, disk) = test_files(lab.right, disk)
        /\ Successes(lab.left) = Successes(lab.right)

\* The main files of a suite and of its children at any depth.
RECURSIVE AllMainFiles(_)
AllMainFiles(s) == s.main \cup UNION {AllMainFiles(o) : o \in s.others}

\* C16: test_files(suite) is exactly the union of the main files of the
\* suite and of all its nested children, at any depth, restricted to the
\* paths that exist on disk at the call; it never holds a path absent
\* from disk.
C16_TestFilesTransitive ==
    lab.op = "test_files" =>
        /\ lab.files = AllMainFiles(lab.subject) \cap disk
        /\ lab.files \subseteq disk

\* C16 witness: test_files() was called on a suite with a child that has a
\* child of its own, gave a file of the innermost suite, and left out a
\* main file that is not on disk.
C16_Witness ==
    /\ lab.op = "test_files"
    /\ \E o \in lab.subject.others : \E oo \in o.others :
            oo.main # {} /\ oo.main \subseteq lab.files
    /\ lab.subject.main \ disk # {}
    /\ lab.files # {}

\* C17: the success run() reports is the conjunction of the main run's
\* result (exit status 0) and the success of every nested child: false when
\* the main run or a child fails, true only when all pass.
C17_SuccessIsConjunction ==
    lab.op = "run" =>
        /\ lab.executed => (lab.ok <=> (lab.main_ok /\ \A ch \in lab.children : ch.ok))
        /\ lab.ok => lab.executed

\* C17 witness: a suite with two children was run; the main run and one
\* child passed, the other child failed, and run() reported failure.
C17_Witness ==
    /\ lab.op = "run" /\ lab.executed
    /\ lab.main_ok
    /\ \E ch1, ch2 \in lab.children : ch1.ok /\ ~ch2.ok
    /\ ~lab.ok

\* A suite without the main files that are not on disk.
Existing(s) == [s EXCEPT !.main = @ \cap disk]

\* C18: a test file a suite refers to but that is not on disk is left out
\* of the files run() hands to the test subprocess, and its absence alone
\* never makes run() report failure: run() succeeds as it does on the suite
\* without the missing files.
C18_MissingFilesLeftOut ==
    lab.op = "run" =>
        /\ lab.handed \subseteq disk
        /\ lab.ok \in Successes(Existing(lab.subject))

\* C19: for a PythonTests suite without nested children and without a
\* main file on disk (no main file at all, or every one missing), run()
\* returns exactly (False, ""): failure with empty diagnostics.
C19_EmptySuiteFails ==
    (/\ lab.op = "run"
     /\ lab.subject.kind = "PythonTests" /\ lab.subject.others = {}
     /\ lab.subject.main \cap disk = {}) =>
        /\ Returned = [ok |-> FALSE, out |-> ""]
        /\ ~lab.executed

\* C19 witness: a PythonTests suite of two files, neither on disk, was run.
C19_Witness ==
    /\ lab.op = "run"
    /\ lab.subject = PythonTests(TestPaths)
    /\ disk = {}
    /\ Returned = [ok |-> FALSE, out |-> ""]

----------------------------------------------------------------------------
(* Properties of the generation model *)

\* C22, the state of a call: generate has been called at most max_tries
\* times; a call that returned did so in the first try in which neither
\* generate nor the response processing raised; a call that failed with
\* RuntimeError made all max_tries tries and each of them raised.
C22_Tries ==
    lab.phase \in {"calling", "returned", "failed"} =>
        /\ lab.tries <= lab.max_tries
        /\ lab.tries = Len(lab.outcomes)
        /\ \A i \in 1..(Len(lab.outcomes) - 1) : lab.outcomes[i] # "returned"
        /\ lab.phase = "returned" => lab.outcomes[lab.tries] = "returned"
        /\ lab.phase = "calling" =>
                \A i \in 1..Len(lab.outcomes) : lab.outcomes[i] # "returned"
        /\ lab.phase = "failed" =>
            /\ lab.tries = lab.max_tries
            /\ lab.error = CollaboratorError
            /\ \A i \in 1..Len(lab.outcomes) : lab.outcomes[i] # "returned"

\* C22, step by step: a call that has returned or failed calls generate no
\* more, and a call whose max_tries tries have all raised fails next.
C22_Step ==
    /\ lab.phase \in {"returned", "failed"} => lab'.generated = lab.generated
    /\ (lab.phase = "calling" /\ lab.tries = lab.max_tries) => lab'.phase = "failed"

\* C22: ModelWrapper.__call__ calls generate at most max_tries times,
\* returns the processed response of the first try in which nothing raised
\* without calling generate again, and raises RuntimeError if and only if
\* all max_tries tries raised.
C22_BoundedRetries == [][C22_Step]_vars /\ []C22_Tries

\* C22 witness: a call returned in its second try after the response
\* processing of the first one raised.
C22_Witness ==
    /\ lab.phase = "returned"
    /\ lab.max_tries = 2
    /\ lab.outcomes = <<"process raised", "returned">>

\* C25: with rate_limit_rpm = N at most N requests are sent within any
\* window of 60 seconds (a window holds its start, not its end), and a generate call that would exceed the bound is
\* delayed, not rejected: every call of generate has sent its request.
C25_RateBound ==
    lab.phase \in {"calling", "returned", "failed"} =>
        /\ \A i \in 1..Len(lab.issued) :
            Cardinality({j \in 1..Len(lab.issued) :
                            /\ lab.issued[j] >= lab.issued[i]
                            /\ lab.issued[j] < lab.issued[i] + Window})
                <= lab.rate_limit_rpm
        /\ Len(lab.issued) = lab.generated

\* C25 witness: with a bound of two requests a minute a third request in
\* the same minute was sent after a sleep.
C25_Witness ==
    /\ lab.rate_limit_rpm = 2
    /\ Len(lab.issued) = 3
    /\ lab.slept > 0
    /\ lab.issued[3] >= lab.issued[1] + Window

\* C27: the generation configuration is layered: a key given when the
\* coder or the wrapper is constructed replaces the class default in
\* default_generate_config, a keyword of one call replaces both in the
\* request of that call only, no call changes default_generate_config, and
\* a coder stores the project_home it was constructed with.
C27_ConfigLayered ==
    /\ \A k \in Keys :
        /\ lab.given[k] # Absent =>
            /\ lab.phase # "rejected"
            /\ lab.default_generate_config[k] = lab.given[k]
        /\ lab.given[k] = Absent =>
            lab.default_generate_config[k] \in {DEFAULT_CONFIG[k], "gpt-4-turbo"}
        /\ lab.tries > 0 =>
            lab.sent[k] = IF lab.kwargs[k] # Absent THEN lab.kwargs[k]
                          ELSE lab.default_generate_config[k]
    /\ lab.route # "OpenAIWrapper" => lab.project_home = lab.home

----------------------------------------------------------------------------
(* Properties of errors in build *)

\* C23, in every state: a build in which a call raised has stopped with
\* that error.
C23_Stopped ==
    \A f \in Frames :
        /\ f.last.raised => f.pc = "raised"
        /\ f.error # "" <=> f.pc = "raised"

\* C23, step by step: a build that has raised makes no further call, and
\* the error of a sub-build becomes, unchanged, the error of the calling
\* build, which makes no further call either.
C23_Step ==
    /\ \A i \in 1..Depth :
        (i <= Len(stack') /\ stack[i].error # "") => stack'[i] = stack[i]
    /\ (Depth > 1 /\ Top.pc = "raised") =>
        /\ Len(stack') = Depth - 1
        /\ stack'[Depth - 1].pc = "raised"
        /\ stack'[Depth - 1].error = Top.error
        /\ stack'[Depth - 1].calls = stack[Depth - 1].calls

\* C23: build neither catches nor retries: when a collaborator call inside
\* build raises, build makes no further collaborator call and the same
\* error reaches build's caller, through every level of recursion.
C23_NoCatchNoRetry == [][C23_Step]_vars /\ []C23_Stopped

\* C23 witness: the top-level build has failed with the error a
\* collaborator of its sub-build raised.
C23_Witness ==
    /\ Depth = 1 /\ stack[1].pc = "raised"
    /\ stack[1].error = CollaboratorError
    /\ stack[1].last.op = "build"

\* C24: when build is ended by an error, its caller is given the touched
\* files gathered up to the failure together with the error.
C24_PartialFilesReported ==
    \A f \in Frames :
        f.pc = "raised" =>
            /\ f.error # ""
            /\ f.retval.shape = "set"
            /\ f.retval.elems = f.touched_project_files \cup f.touched_test_files

\* C28: the suite that is run only accumulates: in every step the main
\* files and the nested children of generated_tests of each build are a
\* superset of what they were (so the unit suites merged in before the first
\* run stay), and a build that has returned has handed this suite back.
C28_Step ==
    \A i \in 1..Depth :
        i <= Len(stack') =>
            /\ stack[i].generated_tests.main \subseteq stack'[i].generated_tests.main
            /\ stack[i].generated_tests.others \subseteq stack'[i].generated_tests.others
            /\ stack'[i].pc = "returned" =>
                /\ stack'[i].retval.shape = "pair"
                /\ stack'[i].retval.second = stack'[i].generated_tests

C28_SuiteAccumulates == [][C28_Step]_vars

----------------------------------------------------------------------------
(* Properties of the feedback hook *)

\* C26: the default feedback_hook returns textual diagnostics unchanged and
\* returns the empty string for every value that is not text; each
\* application returns.
C26_HookKeepsText ==
  /\ Len(lab.feedback) = Len(lab.given)
  /\ \A i \in 1..Len(lab.given) :
       /\ lab.given[i].type = "str" => lab.feedback[i] = lab.given[i].value
       /\ lab.given[i].type # "str" => lab.feedback[i] = ""

C26_Witness ==
  \E i, j \in 1..Len(lab.given) :
    /\ lab.given[i] = Str("d1\n\nd2")
    /\ lab.feedback[i] = "d1\n\nd2"
    /\ lab.given[j].type = "NoneType"
    /\ lab.feedback[j] = ""

----------------------------------------------------------------------------
(* Properties of the write-code loop *)

\* C29: run with overwrite_files=False, the write loop never writes to a
\* file that was on disk when it was selected, so every file that existed
\* before the loop keeps its content.
C29_ExistingFilesKept ==
  (lab.op = "_write_code_loop" /\ ~lab.overwrite_files) =>
    /\ lab.wrote_existing = {}
    /\ \A path \in lab.existed : lab.files[path] = OldCode

\* C30: in both variants, once a response has called the offered tool
\* `finish` the loop makes no further model call and has not written that
\* response's content.
C30_StopsOnFinish ==
  (lab.op = "_write_code_loop" /\ lab.finish_at # 0) =>
    /\ lab.calls = lab.finish_at
    /\ lab.phase # "looping"
    /\ ~lab.finish_written

\* C31: every step of the write-code loop is one more model call, the loop
\* never makes more than max_code_files of them, and after the last one it
\* has returned or raised, whatever the model answered.
C31_Bounded ==
  lab.op = "_write_code_loop" =>
    /\ lab.calls <= max_code_files
    /\ lab.calls = max_code_files => lab.phase \in {"returned", "raised"}

C31_Step ==
  /\ lab.phase = "looping"
  /\ lab'.calls = lab.calls + 1

C31_LoopTerminates == [][C31_Step]_vars /\ []C31_Bounded

\* The loop returns after max_code_files responses none of which called
\* finish, having been refused an existing file and having written nothing.
C31_Witness ==
  /\ lab.op = "_write_code_loop"
  /\ lab.phase = "returned"
  /\ lab.calls = max_code_files
  /\ lab.finish_at = 0
  /\ ~lab.overwrite_files
  /\ lab.current_existed
  /\ lab.written = {}

\* C33: every file the write-code loop has written is in modified_files,
\* the set it returns, and nothing is written while current_file is None.
C33_WrittenFilesReported ==
  lab.op = "_write_code_loop" =>
    /\ lab.written \subseteq lab.modified_files
    /\ ~lab.wrote_unselected
    /\ NoneFile \notin lab.written

----------------------------------------------------------------------------
(* Properties of project_home *)

HomeOps == {"scaffold", "build"} \cup GenOps

\* C32: scaffold, test generation and every sub-build are given the
\* project_home of the build that calls them, which is the one the caller
\* gave, never None and never the current directory.
C32_ProjectHomeThreaded ==
  \A i \in 1..Depth :
    /\ stack[i].project_home = "project_home"
    /\ stack[i].last.op \in HomeOps =>
         stack[i].last.project_home = stack[i].project_home

----------------------------------------------------------------------------
(* Properties of the suite a build ends with *)

----------------------------------------------------------------------------
(* Properties of nesting *)

NoPythonChild(s) ==
  s.kind = "PythonTests" => \A o \in s.others : o.kind # "PythonTests"

\* C36: after one or two merges no direct child of a PythonTests suite is a
\* PythonTests: operands of the same kind went into the main file set, and
\* only suites of another kind were nested.
C36_NoSameKindChild ==
  /\ lab.op = "merge" =>
       /\ NoPythonChild(lab.merged)
       /\ (lab.a.kind = "PythonTests" /\ lab.b.kind = "PythonTests") =>
            lab.b.main \subseteq lab.merged.main
  /\ lab.op = "merge twice" =>
       /\ NoPythonChild(lab.left)
       /\ NoPythonChild(lab.right)

\* Two PythonTests and a suite of another kind have been merged: the files
\* of the second are main files of the result, the third is its child.
C36_Witness ==
  /\ lab.op = "merge twice"
  /\ lab.a.kind = "PythonTests"
  /\ lab.b.kind = "PythonTests"
  /\ lab.b.main = {"t2.py"}
  /\ lab.a.main = {"t1.py"}
  /\ lab.c.kind = "OtherTests"
  /\ lab.left.main = {"t1.py", "t2.py"}
  /\ lab.c \in lab.left.others

----------------------------------------------------------------------------
(* Properties of merging suite objects *)

\* C35: after a += b, and after every later merge into a, b's main file set
\* and b's nested children are what they were before the first merge.
C35_RightOperandKept ==
  (lab.op = "merge" /\ lab.merged[1] = "b") =>
    /\ MainFiles(lab, "b") = lab.b0.main
    /\ lab.obj["b"].others = lab.b0.others

----------------------------------------------------------------------------
(* Properties of truncate_chat *)

EndsWith(chat, suffix) ==
  /\ Len(chat) >= Len(suffix)
  /\ SubSeq(chat, Len(chat) - Len(suffix) + 1, Len(chat)) = suffix

\* C37: truncate_chat returns a chat of at most chat_length characters
\* unchanged, and for a longer chat a string of at most chat_length
\* characters that ends with the truncation marker, for every chat_length
\* from 0 on.
C37_TruncatedToLength ==
  lab.op = "truncate_chat" =>
    /\ Len(lab.chat) <= lab.chat_length => lab.result = lab.chat
    /\ Len(lab.chat) > lab.chat_length =>
         /\ Len(lab.result) <= lab.chat_length
         /\ EndsWith(lab.result, TRUNCATE_MESSAGE)

====
